---- MODULE Spec2Model ----
(***************************************************************************)
(* Model of the Puter store (app/lib/puter.ts) and of the resume analysis  *)
(* handler (app/routes/upload.tsx).                                        *)
(*                                                                         *)
(* JavaScript runs handlers to completion between awaits, so one action is *)
(* one synchronous stretch of code: from a call or a settled promise to    *)
(* the next await or return.                                               *)
(***************************************************************************)
EXTENDS Integers, Sequences, FiniteSets, TLC

(* ------------------------------ bounds -------------------------------- *)
\* session operations that may be in flight at the same time
MaxOps == 2
\* invocations of init()
MaxInits == 2
\* interval ticks that fit before the deadline (10000 / 100 in the code)
DeadlineTicks == 1
\* handleAnalyze invocations
MaxRuns == 2

(* ------------------------- values and messages ------------------------ *)
\* JavaScript null / undefined
NULL == "null"
UNDEFINED == "undefined"

\* user records the platform can return
Users == {"u1", "u2"}

\* the messages of the source, with accented letters written unaccented
MsgUnavailable == "Puter.js no disponible"
MsgUnavailableRefresh == "Puter.js not available"
MsgTimeout == "Puter.js no se pudo cargar en 10 segundos"
MsgCheckFailed == "Falla al revisar el estatus de autorizacion"
MsgSignInFailed == "Inicio de sesion fallido"
MsgSignOutFailed == "Cierre de sesion fallido"
MsgRefreshFailed == "No se pudo actualizar el usuario:"
\* err.message of an Error thrown by the platform
MsgPlatform == "platform error"

\* what a rejected platform promise carries: an Error, or something else
Rejections == {"Error", "other"}

\* err instanceof Error ? err.message : fallback
CatchMsg(rej, fallback) == IF rej = "Error" THEN MsgPlatform ELSE fallback

VARIABLES
  puterPresent,  \* window.puter is defined
  store,         \* the zustand state record
  ops,           \* session operations in flight, by slot
  gates,         \* the timers created by each init() call
  inits,         \* number of init() calls so far
  lastDone,      \* the session operation that completed last, and how
  adapter,       \* the capability adapter call being observed
  runs,          \* handleAnalyze invocations
  kvStore,       \* the platform's key-value store
  blobs,         \* paths the platform's file store holds
  usedIds,       \* identifiers generateUUID has handed out
  isProcessing,  \* Upload component state
  statusText,    \* Upload component state
  file           \* Upload component state: a file is selected

vars == <<puterPresent, store, ops, gates, inits, lastDone, adapter, runs,
          kvStore, blobs, usedIds, isProcessing, statusText, file>>

storeVars == <<puterPresent, store, ops, gates, inits, lastDone>>
uploadVars ==
  <<runs, kvStore, blobs, usedIds, isProcessing, statusText, file>>

(* ------------------------------ the store ----------------------------- *)
\* zustand's set(partial): a shallow merge of the partial into the state
Merge(s, p) == [k \in DOMAIN s |-> IF k \in DOMAIN p THEN p[k] ELSE s[k]]

\* a getUser closure: live reads get().auth.user, otherwise a captured value
LiveGetUser == [live |-> TRUE, val |-> NULL]
Captured(u) == [live |-> FALSE, val |-> u]

\* the auth slice with the operation functions carried over from s
AuthSlice(s, u, authed, getter) ==
  [user |-> u, isAuthenticated |-> authed,
   signIn |-> s.auth.signIn, signOut |-> s.auth.signOut,
   refreshUser |-> s.auth.refreshUser,
   checkAuthStatus |-> s.auth.checkAuthStatus,
   getUser |-> getter]

InitialStore ==
  [isLoading |-> TRUE, error |-> NULL, puterReady |-> FALSE,
   auth |-> [user |-> NULL, isAuthenticated |-> FALSE,
             signIn |-> "signIn", signOut |-> "signOut",
             refreshUser |-> "refreshUser",
             checkAuthStatus |-> "checkAuthStatus",
             getUser |-> LiveGetUser],
   fs |-> "fs", ai |-> "ai", kv |-> "kv",
   init |-> "init", clearError |-> "clearError"]

\* auth.getUser()
CallGetUser(s) ==
  IF s.auth.getUser.live THEN s.auth.user ELSE s.auth.getUser.val

\* an error report that also withdraws readiness
setErrorResetsReady(s, msg) ==
  Merge(s, [error |-> msg, isLoading |-> FALSE, puterReady |-> FALSE,
            auth |-> AuthSlice(s, NULL, FALSE, s.auth.getUser)])

\* an error report that records the message and stops loading but leaves
\* the session as it was
setErrorKeepsSession(s, msg) ==
  Merge(s, [error |-> msg, isLoading |-> FALSE])

\* setError(msg): set({ error: msg, isLoading: false, auth: {user: null,
\* isAuthenticated: false, ..., getUser: get().auth.getUser} })
setError(s, msg) ==
  Merge(s, [error |-> msg, isLoading |-> FALSE,
            auth |-> AuthSlice(s, NULL, FALSE, s.auth.getUser)])

\* a start of operation that also writes a signed-out session
BeginLoadingResetsSession(s) ==
  Merge(s, [isLoading |-> TRUE, error |-> NULL,
            auth |-> AuthSlice(s, NULL, FALSE, Captured(NULL))])

\* set({ isLoading: true, error: null })
BeginLoading(s) == Merge(s, [isLoading |-> TRUE, error |-> NULL])

\* a sign-in commit that marks the session authenticated but keeps the
\* identity the store already held
SetSignedInStale(s, u) ==
  Merge(s, [auth |-> AuthSlice(s, s.auth.user, TRUE, Captured(s.auth.user)),
            isLoading |-> FALSE])

\* set({ auth: {user, isAuthenticated: true, ..., getUser: () => user}, isLoading: false })
SetSignedIn(s, u) ==
  Merge(s, [auth |-> AuthSlice(s, u, TRUE, Captured(u)), isLoading |-> FALSE])

\* a sign-out commit that is skipped when the session is not authenticated
SetSignedOutIfAuthenticated(s) ==
  IF s.auth.isAuthenticated
    THEN Merge(s, [auth |-> AuthSlice(s, NULL, FALSE, Captured(NULL)),
                   isLoading |-> FALSE])
    ELSE s

\* set({ auth: {user: null, isAuthenticated: false, ..., getUser: () => null}, isLoading: false })
SetSignedOut(s) ==
  Merge(s, [auth |-> AuthSlice(s, NULL, FALSE, Captured(NULL)),
            isLoading |-> FALSE])

\* typeof window !== "undefined" && window.puter ? window.puter : null
getPuter == IF puterPresent THEN "puter" ELSE NULL

(* -------------------------- session operations ------------------------ *)
Slots == 1..MaxOps
\* a slot holds one call of a session operation: which one (kind), the
\* promise it awaits (pc), and whether no other session operation has been
\* in flight since it started (alone); a signOut call also keeps which
\* checkAuthStatus and refreshUser calls that were in flight when it started
\* are still in flight (before)
IdleOp == [kind |-> "none", pc |-> "idle", alone |-> FALSE, before |-> {}]
FreeSlots == {i \in Slots : ops[i].pc = "idle"}
InFlight == {i \in Slots : ops[i].pc # "idle"}
\* the slot a newly started operation occupies
FirstFree == CHOOSE i \in FreeSlots : \A j \in FreeSlots : i <= j

\* a session operation starts awaiting promise pc
StartOp(k, pc) ==
  [j \in Slots |->
     IF j = FirstFree
       THEN [kind |-> k, pc |-> pc, alone |-> InFlight = {},
             before |-> IF k = "signOut"
                          THEN {q \in InFlight :
                                  ops[q].kind \in {"checkAuthStatus", "refreshUser"}}
                          ELSE {}]
     ELSE IF ops[j].pc = "idle" THEN ops[j]
     ELSE [ops[j] EXCEPT !.alone = FALSE]]

\* the call in slot i returns
Finish(i) ==
  [j \in Slots |->
     IF j = i THEN IdleOp ELSE [ops[j] EXCEPT !.before = @ \ {i}]]

\* how an operation ended: "signedIn", "signedOut" or "failed"
\* during: the checkAuthStatus and refreshUser calls a signOut that
\* succeeded found in flight when it started and left in flight when it
\* completed
NoneDone == [kind |-> "none", out |-> "none", during |-> {}]
Done(i, out) ==
  [kind |-> ops[i].kind, out |-> out,
   during |-> IF ops[i].kind = "signOut" /\ out = "signedOut"
                THEN ops[i].before ELSE {}]
\* the operation that completed last was a kind that ended as out
Was(kind, out) == lastDone.kind = kind /\ lastDone.out = out

\* checkAuthStatus called as a session operation of its own
checkAuthStatus ==
  /\ FreeSlots # {}
  /\ IF getPuter = NULL
       THEN /\ store' = setError(store, MsgUnavailable)
            /\ UNCHANGED ops
       ELSE /\ store' = BeginLoading(store)
            /\ ops' = StartOp("checkAuthStatus", "isSignedIn")
  /\ UNCHANGED <<puterPresent, gates, inits, lastDone, adapter, uploadVars>>

\* puter.auth.isSignedIn() resolves to true (live) or false
IsSignedInResolves(i, live) ==
  /\ ops[i].pc = "isSignedIn"
  /\ IF live
       THEN /\ ops' = [ops EXCEPT ![i].pc = "getUser"]
            /\ UNCHANGED <<store, lastDone>>
       ELSE /\ store' = SetSignedOut(store)
            /\ ops' = Finish(i)
            /\ lastDone' = Done(i, "signedOut")
  /\ UNCHANGED <<puterPresent, gates, inits, adapter, uploadVars>>

\* puter.auth.isSignedIn() rejects
IsSignedInRejects(i, rej) ==
  /\ ops[i].pc = "isSignedIn"
  /\ store' = setError(store, CatchMsg(rej, MsgCheckFailed))
  /\ ops' = Finish(i)
  /\ lastDone' = Done(i, "failed")
  /\ UNCHANGED <<puterPresent, gates, inits, adapter, uploadVars>>

IsSignedInSettles(i) ==
  \/ \E live \in BOOLEAN : IsSignedInResolves(i, live)
  \/ \E rej \in Rejections : IsSignedInRejects(i, rej)

\* a completion that commits the identity only to a session that is already
\* authenticated
GetUserResolvesIfLive(i, u) ==
  /\ ops[i].pc = "getUser"
  /\ store' = IF store.auth.isAuthenticated THEN SetSignedIn(store, u)
              ELSE Merge(store, [isLoading |-> FALSE])
  /\ ops' = Finish(i)
  /\ lastDone' = Done(i, "signedIn")
  /\ UNCHANGED <<puterPresent, gates, inits, adapter, uploadVars>>

\* puter.auth.getUser() resolves, in checkAuthStatus or in refreshUser
GetUserResolves(i, u) ==
  /\ ops[i].pc = "getUser"
  /\ store' = SetSignedIn(store, u)
  /\ ops' = Finish(i)
  /\ lastDone' = Done(i, "signedIn")
  /\ UNCHANGED <<puterPresent, gates, inits, adapter, uploadVars>>

\* puter.auth.getUser() rejects, in checkAuthStatus or in refreshUser
GetUserRejects(i, rej) ==
  /\ ops[i].pc = "getUser"
  /\ store' = setError(store,
                CatchMsg(rej, IF ops[i].kind = "refreshUser"
                                THEN MsgRefreshFailed
                                ELSE MsgCheckFailed))
  /\ ops' = Finish(i)
  /\ lastDone' = Done(i, "failed")
  /\ UNCHANGED <<puterPresent, gates, inits, adapter, uploadVars>>

GetUserSettles(i) ==
  \/ \E u \in Users \cup {NULL} : GetUserResolves(i, u)
  \/ \E rej \in Rejections : GetUserRejects(i, rej)

signIn ==
  /\ FreeSlots # {}
  /\ IF getPuter = NULL
       THEN /\ store' = setError(store, MsgUnavailable)
            /\ UNCHANGED ops
       ELSE /\ store' = BeginLoading(store)
            /\ ops' = StartOp("signIn", "signIn")
  /\ UNCHANGED <<puterPresent, gates, inits, lastDone, adapter, uploadVars>>

\* puter.auth.signIn() resolves: checkAuthStatus() is called and awaited
SignInResolves(i) ==
  /\ ops[i].pc = "signIn"
  /\ IF getPuter = NULL
       THEN /\ store' = setError(store, MsgUnavailable)
            /\ ops' = Finish(i)
            /\ lastDone' = Done(i, "failed")
       ELSE /\ store' = BeginLoading(store)
            /\ ops' = [ops EXCEPT ![i].pc = "isSignedIn"]
            /\ UNCHANGED lastDone
  /\ UNCHANGED <<puterPresent, gates, inits, adapter, uploadVars>>

\* a rejection handler that records the error and leaves the platform
\* sign-in pending again
SignInRejectsRetry(i, rej) ==
  /\ ops[i].pc = "signIn"
  /\ store' = setError(store, CatchMsg(rej, MsgSignInFailed))
  /\ UNCHANGED <<puterPresent, ops, gates, inits, lastDone, adapter,
                 uploadVars>>

\* puter.auth.signIn() rejects
SignInRejects(i, rej) ==
  /\ ops[i].pc = "signIn"
  /\ store' = setError(store, CatchMsg(rej, MsgSignInFailed))
  /\ ops' = Finish(i)
  /\ lastDone' = Done(i, "failed")
  /\ UNCHANGED <<puterPresent, gates, inits, adapter, uploadVars>>

SignInSettles(i) ==
  \/ SignInResolves(i)
  \/ \E rej \in Rejections : SignInRejects(i, rej)

signOut ==
  /\ FreeSlots # {}
  /\ IF getPuter = NULL
       THEN /\ store' = setError(store, MsgUnavailable)
            /\ UNCHANGED ops
       ELSE /\ store' = BeginLoading(store)
            /\ ops' = StartOp("signOut", "signOut")
  /\ UNCHANGED <<puterPresent, gates, inits, lastDone, adapter, uploadVars>>

\* puter.auth.signOut() resolves
SignOutResolves(i) ==
  /\ ops[i].pc = "signOut"
  /\ store' = SetSignedOut(store)
  /\ ops' = Finish(i)
  /\ lastDone' = Done(i, "signedOut")
  /\ UNCHANGED <<puterPresent, gates, inits, adapter, uploadVars>>

\* puter.auth.signOut() rejects
SignOutRejects(i, rej) ==
  /\ ops[i].pc = "signOut"
  /\ store' = setError(store, CatchMsg(rej, MsgSignOutFailed))
  /\ ops' = Finish(i)
  /\ lastDone' = Done(i, "failed")
  /\ UNCHANGED <<puterPresent, gates, inits, adapter, uploadVars>>

SignOutSettles(i) ==
  \/ SignOutResolves(i)
  \/ \E rej \in Rejections : SignOutRejects(i, rej)

refreshUser ==
  /\ FreeSlots # {}
  /\ IF getPuter = NULL
       THEN /\ store' = setError(store, MsgUnavailableRefresh)
            /\ UNCHANGED ops
       ELSE /\ store' = BeginLoading(store)
            /\ ops' = StartOp("refreshUser", "getUser")
  /\ UNCHANGED <<puterPresent, gates, inits, lastDone, adapter, uploadVars>>

\* a reset that also ends loading
ClearErrorAndLoading(s) == Merge(s, [error |-> NULL, isLoading |-> FALSE])

\* set({ error: null }) applied to store value s
ClearErrorOn(s) == Merge(s, [error |-> NULL])

clearError ==
  /\ store' = ClearErrorOn(store)
  /\ UNCHANGED <<puterPresent, ops, gates, inits, lastDone, adapter, uploadVars>>

(* ------------------------ capability availability --------------------- *)
\* the platform script finishes loading and defines window.puter
PuterLoads ==
  /\ ~puterPresent
  /\ puterPresent' = TRUE
  /\ UNCHANGED <<store, ops, gates, inits, lastDone, adapter, uploadVars>>

\* set({ puterReady: true }); checkAuthStatus();
BecomeReady ==
  /\ FreeSlots # {}
  /\ store' = BeginLoading(Merge(store, [puterReady |-> TRUE]))
  /\ ops' = StartOp("checkAuthStatus", "isSignedIn")

init ==
  /\ inits < MaxInits
  /\ inits' = inits + 1
  /\ IF getPuter # NULL
       THEN /\ BecomeReady
            /\ UNCHANGED gates
       ELSE /\ gates' = Append(gates, [interval |-> TRUE, timeout |-> TRUE,
                                       ticks |-> 0])
            /\ UNCHANGED <<store, ops>>
  /\ UNCHANGED <<puterPresent, lastDone, adapter, uploadVars>>

\* an interval callback that goes on polling after it has seen the client
PollKeepsPolling(g) ==
  /\ gates[g].interval
  /\ gates[g].ticks < DeadlineTicks
  /\ IF getPuter # NULL
       THEN /\ UNCHANGED gates
            /\ BecomeReady
       ELSE /\ gates' = [gates EXCEPT ![g].ticks = @ + 1]
            /\ UNCHANGED <<store, ops>>
  /\ UNCHANGED <<puterPresent, inits, lastDone, adapter, uploadVars>>

\* the setInterval callback of the g-th init() call
Poll(g) ==
  /\ gates[g].interval
  /\ gates[g].ticks < DeadlineTicks
  /\ IF getPuter # NULL
       THEN /\ gates' = [gates EXCEPT ![g].interval = FALSE]
            /\ BecomeReady
       ELSE /\ gates' = [gates EXCEPT ![g].ticks = @ + 1]
            /\ UNCHANGED <<store, ops>>
  /\ UNCHANGED <<puterPresent, inits, lastDone, adapter, uploadVars>>

\* a deadline callback that cancels the polling and reports nothing
DeadlineSilent(g) ==
  /\ gates[g].timeout
  /\ ~gates[g].interval \/ gates[g].ticks >= DeadlineTicks - 1
  /\ gates' = [gates EXCEPT ![g].timeout = FALSE, ![g].interval = FALSE]
  /\ UNCHANGED <<puterPresent, store, ops, inits, lastDone, adapter, uploadVars>>

\* the setTimeout callback of the g-th init() call
Deadline(g) ==
  /\ gates[g].timeout
  /\ ~gates[g].interval \/ gates[g].ticks >= DeadlineTicks - 1
  /\ gates' = [gates EXCEPT ![g].timeout = FALSE, ![g].interval = FALSE]
  /\ store' = IF getPuter = NULL THEN setError(store, MsgTimeout) ELSE store
  /\ UNCHANGED <<puterPresent, ops, inits, lastDone, adapter, uploadVars>>

(* --------------------------- capability adapters ---------------------- *)
AdapterOps ==
  {"fs.write", "fs.read", "fs.readDir", "fs.upload", "fs.delete",
   "ai.chat", "ai.feedback", "ai.img2txt",
   "kv.get", "kv.set", "kv.delete", "kv.list", "kv.flush"}

\* the adapter call under observation: the operation, where its promise
\* stands, and what held when it was called
IdleAdapter ==
  [op |-> "none", pc |-> "idle", platformCalled |-> FALSE,
   platformCalls |-> 0, presentAtCall |-> FALSE, readyAtCall |-> FALSE,
   errorAtReturn |-> NULL, result |-> UNDEFINED, args |-> <<>>,
   passed |-> <<>>]

\* an adapter whose guard returns without reporting the error
AdapterGuardSilent(s) == s

\* the guard every adapter starts with:
\* if (!puter) { setError("Puter.js no disponible"); return; }
AdapterGuard(s) ==
  IF getPuter = NULL THEN setError(s, MsgUnavailable) ELSE s

\* whether the adapter goes on to its platform call
AdapterReaches == getPuter # NULL

\* the arguments of kv.list: a pattern and the optional returnValues flag
Patterns == {"resume:*", "*"}
ListFlags == {UNDEFINED, "true", "false"}
\* the argument lists an adapter is called with (modelled for kv.list only)
ArgsOf(op) ==
  IF op = "kv.list" THEN {<<p, f>> : p \in Patterns, f \in ListFlags}
  ELSE {<<>>}

\* a listKV whose default is to return the values
ListPassedValues(pattern, returnValues) ==
  <<pattern, IF returnValues = UNDEFINED THEN "true" ELSE returnValues>>

\* listKV: if (returnValues === undefined) returnValues = false;
\* puter.kv.list(pattern, returnValues)
ListPassed(pattern, returnValues) ==
  <<pattern, IF returnValues = UNDEFINED THEN "false" ELSE returnValues>>

\* what the adapter hands to the platform function
PassedTo(op, args) ==
  IF op = "kv.list" THEN ListPassed(args[1], args[2]) ELSE args

\* an adapter function called with args runs up to its return statement
AdapterCallWith(op, args) ==
  /\ adapter.pc # "pending"
  /\ store' = AdapterGuard(store)
  /\ adapter' = [op |-> op,
                 pc |-> IF AdapterReaches THEN "pending" ELSE "resolved",
                 platformCalled |-> AdapterReaches,
                 platformCalls |-> IF AdapterReaches THEN 1 ELSE 0,
                 presentAtCall |-> puterPresent,
                 readyAtCall |-> store.puterReady,
                 errorAtReturn |-> AdapterGuard(store).error,
                 result |-> UNDEFINED,
                 args |-> args,
                 passed |-> IF AdapterReaches THEN PassedTo(op, args)
                            ELSE <<>>]
  /\ UNCHANGED <<puterPresent, ops, gates, inits, lastDone, uploadVars>>

\* an adapter function is called
AdapterCall(op) == \E args \in ArgsOf(op) : AdapterCallWith(op, args)

\* an adapter that reports an empty platform result as an error
AdapterSettlesReporting ==
  /\ adapter.pc = "pending"
  /\ \/ \E v \in {"value", UNDEFINED} :
          /\ adapter' = [adapter EXCEPT !.pc = "resolved", !.result = v]
          /\ store' = IF v = UNDEFINED THEN setError(store, MsgUnavailable)
                      ELSE store
     \/ \E rej \in Rejections :
          /\ adapter' = [adapter EXCEPT !.pc = "rejected", !.result = rej]
          /\ UNCHANGED store
  /\ UNCHANGED <<puterPresent, ops, gates, inits, lastDone, uploadVars>>

\* an adapter that issues its platform call again when the promise rejects
AdapterSettlesRetrying ==
  /\ adapter.pc = "pending"
  /\ \/ \E v \in {"value", UNDEFINED} :
          adapter' = [adapter EXCEPT !.pc = "resolved", !.result = v]
     \/ \E rej \in Rejections :
          adapter' = IF adapter.platformCalls < 2
                       THEN [adapter EXCEPT !.platformCalls = @ + 1]
                       ELSE [adapter EXCEPT !.pc = "rejected", !.result = rej]
  /\ UNCHANGED <<storeVars, uploadVars>>

\* the platform promise the adapter returned settles; the adapter's own
\* promise follows it
AdapterSettles ==
  /\ adapter.pc = "pending"
  /\ \/ \E v \in {"value", UNDEFINED} :
          adapter' = [adapter EXCEPT !.pc = "resolved", !.result = v]
     \/ \E rej \in Rejections :
          adapter' = [adapter EXCEPT !.pc = "rejected", !.result = rej]
  /\ UNCHANGED <<storeVars, uploadVars>>

(* ------------------------- JavaScript values -------------------------- *)
\* a JavaScript value: its type and a rendering of its content
Str(x) == [t |-> "string", v |-> x]
Obj(x) == [t |-> "object", v |-> x]
Undef == [t |-> "undefined", v |-> ""]
Null == [t |-> "null", v |-> ""]

\* texts an inference response can carry
TextObject == "{\"score\":7}"
TextQuotedEmpty == "\"\""
TextNotJson == "not-json"
TextEmpty == ""
Texts == {TextObject, TextQuotedEmpty, TextNotJson, TextEmpty}

\* JSON.parse on a response text: the value, or a SyntaxError
JSONParse(txt) ==
  CASE txt = TextObject -> [ok |-> TRUE, val |-> Obj("score=7")]
    [] txt = TextQuotedEmpty -> [ok |-> TRUE, val |-> Str("")]
    [] OTHER -> [ok |-> FALSE, val |-> Undef]

\* feedback.message.content: a string, or a list of {text} items
Contents ==
  {[isString |-> TRUE, items |-> <<txt>>] : txt \in Texts}
    \cup {[isString |-> FALSE, items |-> <<txt>>] : txt \in Texts}
    \cup {[isString |-> FALSE, items |-> <<TextObject, TextNotJson>>],
          [isString |-> FALSE, items |-> <<TextNotJson, TextObject>>]}
    \cup {[isString |-> FALSE, items |-> <<>>]}

\* an extraction that reads the last element of a content list
FeedbackTextLast(c) ==
  IF c.isString THEN [ok |-> TRUE, text |-> c.items[1]]
  ELSE IF Len(c.items) > 0 THEN [ok |-> TRUE, text |-> c.items[Len(c.items)]]
  ELSE [ok |-> FALSE, text |-> ""]

\* typeof content === 'string' ? content : content[0].text
\* (content[0] of an empty list is undefined: reading .text throws)
FeedbackText(c) ==
  IF c.isString THEN [ok |-> TRUE, text |-> c.items[1]]
  ELSE IF Len(c.items) > 0 THEN [ok |-> TRUE, text |-> c.items[1]]
  ELSE [ok |-> FALSE, text |-> ""]

\* a serialization that leaves the resume path out
StringifyNoPath(d) ==
  << <<"id", d.id>>, <<"imagePath", d.imagePath>>,
     <<"companyName", d.companyName>>, <<"jobTitle", d.jobTitle>>,
     <<"jobDescription", d.jobDescription>>, <<"feedback", d.feedback>> >>

\* JSON.stringify(data): the properties in insertion order
Stringify(d) ==
  << <<"id", d.id>>, <<"resumePath", d.resumePath>>,
     <<"imagePath", d.imagePath>>, <<"companyName", d.companyName>>,
     <<"jobTitle", d.jobTitle>>, <<"jobDescription", d.jobDescription>>,
     <<"feedback", d.feedback>> >>

\* reading a serialized record back: property name to value
ParseStored(txt) ==
  [n \in {txt[i][1] : i \in DOMAIN txt} |->
     (CHOOSE pair \in {txt[i] : i \in DOMAIN txt} : pair[1] = n)[2]]

(* --------------------------- the upload route ------------------------- *)
StUploading == "Subiendo el CV..."
StUploadFailed == "Error al subir el CV"
StConverting == "Convirtiendo a Imagen..."
StConvertFailed == "Error al convertir el PDF a imagen"
StUploadImageFailed == "Error al subir la imagen"
StPreparing == "Preparando la informacion..."
StAnalyzing == "Analizando..."
StAnalyzeFailed == "Error al analizar el CV"
StDone == "Analisis finalizado, redireccionando..."

FailureTexts ==
  {StUploadFailed, StConvertFailed, StUploadImageFailed, StAnalyzeFailed}

\* the form fields of a submission
CompanyName == "Acme"
JobTitle == "Engineer"
JobDescription == "..."

\* paths the platform gives the uploaded artifacts
ResumePath == "/resume.pdf"
ImagePath == "/resume.png"

Runs == 1..MaxRuns
IdNames == <<"id-a", "id-b", "id-c", "id-d">>
UUIDs == {IdNames[i] : i \in 1..MaxRuns}

\* a key that leaves the identifier out
KeyOfShared(uuid) == "resume:"

\* `resume:${uuid}`
KeyOf(uuid) == "resume:" \o uuid

NoData ==
  [id |-> Undef, resumePath |-> Undef, imagePath |-> Undef,
   companyName |-> Undef, jobTitle |-> Undef, jobDescription |-> Undef,
   feedback |-> Undef]

\* a handleAnalyze invocation: where it is suspended (pc), its local variables,
\* whether the adapter it awaits found no platform client (unavailable), and
\* what it has done so far: the calls it issued, the status text it last set,
\* the first stage whose result came back empty, and what it threw
IdleRun ==
  [pc |-> "idle", unavailable |-> FALSE, uploadedFile |-> Undef,
   imageFile |-> Undef, uploadedImage |-> Undef, uuid |-> "", data |-> NoData,
   feedbackText |-> Undef, lastStatus |-> "", calls |-> <<>>,
   emptyAt |-> "", thrown |-> ""]

\* one collaborator call of a run, as the run issued it
Call(op, arg, value) ==
  [op |-> op, arg |-> arg, value |-> value, platform |-> AdapterReaches]

\* the calls of run r to operation op
CallsTo(r, op) ==
  {i \in DOMAIN runs[r].calls : runs[r].calls[i].op = op}

\* the platform stores a value under a key
KvPut(kv, key, value) ==
  [k \in DOMAIN kv \cup {key} |-> IF k = key THEN value ELSE kv[k]]

\* runs start in order of their number
NextRun == CHOOSE r \in Runs : runs[r].pc = "idle" /\ \A q \in 1..(r-1) : runs[q].pc # "idle"
CanStart == \E r \in Runs : runs[r].pc = "idle"

\* a handler that starts the conversion without awaiting the upload
handleAnalyzeEager ==
  /\ CanStart
  /\ isProcessing' = TRUE
  /\ statusText' = StConverting
  /\ store' = AdapterGuard(store)
  /\ runs' = [runs EXCEPT ![NextRun] =
                [IdleRun EXCEPT !.pc = "upload",
                                !.unavailable = ~AdapterReaches,
                                !.lastStatus = StConverting,
                                !.calls = <<Call("fs.upload", "file", <<>>),
                                            Call("convert", "file", <<>>)>>]]
  /\ UNCHANGED <<puterPresent, ops, gates, inits, lastDone, adapter, kvStore, blobs, usedIds,
                 file>>

\* handleAnalyze up to its first await
handleAnalyze ==
  /\ CanStart
  /\ isProcessing' = TRUE
  /\ statusText' = StUploading
  /\ store' = AdapterGuard(store)
  /\ runs' = [runs EXCEPT ![NextRun] =
                [IdleRun EXCEPT !.pc = "upload",
                                !.unavailable = ~AdapterReaches,
                                !.lastStatus = StUploading,
                                !.calls = <<Call("fs.upload", "file", <<>>)>>]]
  /\ UNCHANGED <<puterPresent, ops, gates, inits, lastDone, adapter, kvStore, blobs, usedIds,
                 file>>

\* FileUploader's onFileSelect: a file is dropped or removed
handleFileSelect ==
  /\ file' = ~file
  /\ UNCHANGED <<storeVars, adapter, runs, kvStore, blobs, usedIds, isProcessing,
                 statusText>>

\* a submit handler without the `if (!file) return` check
handleSubmitUnchecked ==
  /\ ~isProcessing
  /\ handleAnalyze

\* the form is rendered only while !isProcessing
handleSubmit ==
  /\ ~isProcessing
  /\ IF file THEN handleAnalyze ELSE UNCHANGED vars

\* a run that stops by deleting what its earlier stages uploaded
AbortRollsBack(r, text) ==
  /\ statusText' = text
  /\ runs' = [runs EXCEPT ![r].pc = "aborted", ![r].lastStatus = text,
                          ![r].emptyAt = runs[r].pc,
                          ![r].calls = Append(@, Call("fs.delete", "file", <<>>))]
  /\ blobs' = {}
  /\ UNCHANGED <<storeVars, adapter, kvStore, usedIds, isProcessing, file>>

\* a run stops: return setStatusText(text)
Abort(r, text) ==
  /\ statusText' = text
  /\ runs' = [runs EXCEPT ![r].pc = "aborted", ![r].lastStatus = text,
                          ![r].emptyAt = runs[r].pc]
  /\ UNCHANGED <<storeVars, adapter, kvStore, blobs, usedIds, isProcessing, file>>

\* an awaited promise rejects, or the code throws: nothing catches it
Throws(r, what) ==
  /\ runs' = [runs EXCEPT ![r].pc = "threw", ![r].thrown = what]
  /\ UNCHANGED <<storeVars, adapter, kvStore, blobs, usedIds, isProcessing,
                 statusText, file>>

\* fs.upload([file]) settles
UploadSettles(r) ==
  /\ runs[r].pc = "upload"
  /\ \/ /\ ~runs[r].unavailable
        /\ statusText' = StConverting
        /\ runs' = [runs EXCEPT ![r].pc = "convert",
                                ![r].uploadedFile = Str(ResumePath),
                                ![r].lastStatus = StConverting,
                                ![r].calls = Append(@, Call("convert", "file", <<>>))]
        /\ blobs' = blobs \cup {ResumePath}
        /\ UNCHANGED <<storeVars, adapter, kvStore, usedIds, isProcessing,
                       file>>
     \/ Abort(r, StUploadFailed)
     \/ ~runs[r].unavailable /\ Throws(r, "rejection")

\* a handler that goes on to the image upload without looking at
\* imageFile.file
ConvertSettlesUnchecked(r) ==
  /\ runs[r].pc = "convert"
  /\ \E img \in {Str("image"), Null} :
       /\ statusText' = StUploading
       /\ store' = AdapterGuard(store)
       /\ runs' = [runs EXCEPT ![r].pc = "uploadImage",
                               ![r].imageFile = img,
                               ![r].unavailable = ~AdapterReaches,
                               ![r].lastStatus = StUploading,
                               ![r].calls = Append(@, Call("fs.upload", "image", <<>>))]
       /\ UNCHANGED <<puterPresent, ops, gates, inits, lastDone, adapter, kvStore,
                      blobs, usedIds, isProcessing, file>>

\* convertPdfToImage(file) settles
ConvertSettles(r) ==
  /\ runs[r].pc = "convert"
  /\ \/ /\ statusText' = StUploading
        /\ store' = AdapterGuard(store)
        /\ runs' = [runs EXCEPT ![r].pc = "uploadImage",
                                ![r].imageFile = Str("image"),
                                ![r].unavailable = ~AdapterReaches,
                                ![r].lastStatus = StUploading,
                                ![r].calls = Append(@, Call("fs.upload", "image", <<>>))]
        /\ UNCHANGED <<puterPresent, ops, gates, inits, lastDone, adapter, kvStore,
                       blobs, usedIds, isProcessing, file>>
     \/ /\ statusText' = StConvertFailed
        /\ runs' = [runs EXCEPT ![r].pc = "aborted", ![r].imageFile = Null,
                                ![r].lastStatus = StConvertFailed,
                                ![r].emptyAt = "convert"]
        /\ UNCHANGED <<storeVars, adapter, kvStore, blobs, usedIds, isProcessing, file>>

\* fs.upload([imageFile.file]) settles
UploadImageSettles(r) ==
  /\ runs[r].pc = "uploadImage"
  /\ \/ /\ ~runs[r].unavailable
        /\ \E uuid \in UUIDs \ usedIds :
             LET data == [id |-> Str(uuid), resumePath |-> runs[r].uploadedFile,
                          imagePath |-> Str(ImagePath),
                          companyName |-> Str(CompanyName),
                          jobTitle |-> Str(JobTitle),
                          jobDescription |-> Str(JobDescription),
                          feedback |-> Str("")]
             IN /\ usedIds' = usedIds \cup {uuid}
                /\ runs' = [runs EXCEPT
                     ![r].pc = "kvDraft",
                     ![r].uploadedImage = Str(ImagePath),
                     ![r].unavailable = ~AdapterReaches,
                     ![r].uuid = uuid,
                     ![r].data = data,
                     ![r].lastStatus = StPreparing,
                     ![r].calls = Append(@, Call("kv.set", KeyOf(uuid), Stringify(data)))]
        /\ statusText' = StPreparing
        /\ store' = AdapterGuard(store)
        /\ blobs' = blobs \cup {ImagePath}
        /\ UNCHANGED <<puterPresent, ops, gates, inits, lastDone, adapter,
                       kvStore, isProcessing, file>>
     \/ Abort(r, StUploadImageFailed)
     \/ ~runs[r].unavailable /\ Throws(r, "rejection")

\* the ai.feedback call that follows the draft's kv.set, whatever it returned
StartFeedback(r, stored) ==
  /\ statusText' = StAnalyzing
  /\ store' = AdapterGuard(store)
  /\ runs' = [runs EXCEPT ![r].pc = "feedback",
                          ![r].emptyAt = IF stored THEN @ ELSE "kvDraft",
                          ![r].unavailable = ~AdapterReaches,
                          ![r].lastStatus = StAnalyzing,
                          ![r].calls = Append(@, Call("ai.feedback", ResumePath, <<>>))]
  /\ UNCHANGED <<puterPresent, ops, gates, inits, lastDone, adapter, blobs, usedIds,
                 isProcessing, file>>

\* the draft's kv.set settles: the platform stored the value and resolved
\* true, or stored nothing and resolved false, or rejected
KvDraftSettles(r) ==
  /\ runs[r].pc = "kvDraft"
  /\ \/ /\ ~runs[r].unavailable
        /\ kvStore' = KvPut(kvStore, KeyOf(runs[r].uuid), Stringify(runs[r].data))
        /\ StartFeedback(r, TRUE)
     \/ /\ UNCHANGED kvStore
        /\ StartFeedback(r, FALSE)
     \/ ~runs[r].unavailable /\ Throws(r, "rejection")

\* a handler that forgets to assign the parsed value
WithFeedbackKept(data, val) == data

\* data.feedback = JSON.parse(feedbackText), given the parsed value
WithFeedback(data, val) == [data EXCEPT !.feedback = val]

\* ai.feedback resolves to a response whose message.content is c
FeedbackResolves(r, c) ==
  /\ runs[r].pc = "feedback"
  /\ ~runs[r].unavailable
  /\ LET ft == FeedbackText(c)
         parsed == JSONParse(ft.text)
     IN IF ~ft.ok
          THEN Throws(r, "TypeError")
        ELSE IF ~parsed.ok
          THEN /\ runs' = [runs EXCEPT ![r].pc = "threw",
                                       ![r].thrown = "SyntaxError",
                                       ![r].feedbackText = Str(ft.text)]
               /\ UNCHANGED <<storeVars, adapter, kvStore, blobs, usedIds,
                              isProcessing, statusText, file>>
          ELSE LET data == WithFeedback(runs[r].data, parsed.val)
               IN /\ store' = AdapterGuard(store)
                  /\ runs' = [runs EXCEPT
                       ![r].pc = "kvFinal",
                       ![r].unavailable = ~AdapterReaches,
                       ![r].feedbackText = Str(ft.text),
                       ![r].data = data,
                       ![r].calls = Append(@, Call("kv.set", KeyOf(runs[r].uuid), Stringify(data)))]
                  /\ UNCHANGED <<puterPresent, ops, gates, inits,
                                 lastDone, adapter, kvStore, blobs, usedIds,
                                 isProcessing, statusText, file>>

\* ai.feedback settles
FeedbackSettles(r) ==
  /\ runs[r].pc = "feedback"
  /\ \/ Abort(r, StAnalyzeFailed)
     \/ ~runs[r].unavailable /\ Throws(r, "rejection")
     \/ \E c \in Contents : FeedbackResolves(r, c)

\* the final kv.set settles
KvFinalSettles(r) ==
  /\ runs[r].pc = "kvFinal"
  /\ \/ \E stored \in {TRUE, FALSE} :
          /\ stored => ~runs[r].unavailable
          /\ kvStore' = IF stored
                          THEN KvPut(kvStore, KeyOf(runs[r].uuid),
                                     Stringify(runs[r].data))
                          ELSE kvStore
          /\ statusText' = StDone
          /\ runs' = [runs EXCEPT ![r].pc = "done", ![r].lastStatus = StDone,
                                  ![r].emptyAt = IF stored THEN @ ELSE "kvFinal"]
        /\ UNCHANGED <<storeVars, adapter, blobs, usedIds, isProcessing, file>>
     \/ ~runs[r].unavailable /\ Throws(r, "rejection")

(* --------------------------- specifications --------------------------- *)
Init ==
  /\ puterPresent \in BOOLEAN
  /\ store = InitialStore
  /\ ops = [i \in Slots |-> IdleOp]
  /\ gates = <<>>
  /\ inits = 0
  /\ lastDone = NoneDone
  /\ adapter = IdleAdapter
  /\ runs = [r \in Runs |-> IdleRun]
  /\ kvStore = <<>>
  /\ blobs = {}
  /\ blobs = {}
  /\ usedIds = {}
  /\ isProcessing = FALSE
  /\ statusText = ""
  /\ file = FALSE

\* the root component's effect calls init() when it mounts: once in the
\* documented lifecycle of the store
initOnce == inits = 0 /\ init

\* the store: capability gate and session operations
Next ==
  \/ PuterLoads
  \/ initOnce
  \/ \E g \in DOMAIN gates : Poll(g)
  \/ \E g \in DOMAIN gates : Deadline(g)
  \/ checkAuthStatus
  \/ signIn
  \/ signOut
  \/ refreshUser
  \/ clearError
  \/ \E i \in Slots : IsSignedInSettles(i)
  \/ \E i \in Slots : GetUserSettles(i)
  \/ \E i \in Slots : SignInSettles(i)
  \/ \E i \in Slots : SignOutSettles(i)

Spec == Init /\ [][Next]_vars

\* the capability adapters, with the gate that sets puterReady
NextAdapters ==
  \/ PuterLoads
  \/ initOnce
  \/ \E g \in DOMAIN gates : Poll(g)
  \/ \E g \in DOMAIN gates : Deadline(g)
  \/ \E i \in Slots : IsSignedInSettles(i)
  \/ \E i \in Slots : GetUserSettles(i)
  \/ clearError
  \/ \E op \in AdapterOps : AdapterCall(op)
  \/ AdapterSettles

SpecAdapters == Init /\ [][NextAdapters]_vars

\* the capability gate alone, with init() called any number of times (an
\* effect that runs again calls it again)
NextGate ==
  \/ PuterLoads
  \/ init
  \/ \E g \in DOMAIN gates : Poll(g)
  \/ \E g \in DOMAIN gates : Deadline(g)
  \/ \E i \in Slots : IsSignedInSettles(i)
  \/ \E i \in Slots : GetUserSettles(i)

SpecGate == Init /\ [][NextGate]_vars

\* the upload route
NextAnalyze ==
  \/ PuterLoads
  \/ handleFileSelect
  \/ handleSubmit
  \/ handleAnalyze
  \/ \E r \in Runs : UploadSettles(r)
  \/ \E r \in Runs : ConvertSettles(r)
  \/ \E r \in Runs : UploadImageSettles(r)
  \/ \E r \in Runs : KvDraftSettles(r)
  \/ \E r \in Runs : FeedbackSettles(r)
  \/ \E r \in Runs : KvFinalSettles(r)

SpecAnalyze == Init /\ [][NextAnalyze]_vars

\* one submission of the form, next to adapter calls made from elsewhere
NextNoRetry ==
  \/ PuterLoads
  \/ handleFileSelect
  \/ handleSubmit
  \/ \E r \in Runs : UploadSettles(r)
  \/ \E r \in Runs : ConvertSettles(r)
  \/ \E r \in Runs : UploadImageSettles(r)
  \/ \E r \in Runs : KvDraftSettles(r)
  \/ \E r \in Runs : FeedbackSettles(r)
  \/ \E r \in Runs : KvFinalSettles(r)
  \/ \E op \in AdapterOps : AdapterCall(op)
  \/ AdapterSettles

SpecNoRetry == Init /\ [][NextNoRetry]_vars

(* ------------------------------- claims ------------------------------- *)
\* C1: in every reachable store state, if lastError is not null then
\* isLoading is false and the session is unauthenticated with a null identity.
C1_ErrorImpliesIdleUnauthenticated ==
  store.error # NULL =>
    /\ store.isLoading = FALSE
    /\ store.auth.isAuthenticated = FALSE
    /\ store.auth.user = NULL

\* C2: in every reachable store state the session is authenticated if and
\* only if the stored identity is not null.
C2_AuthenticatedIffIdentity ==
  store.auth.isAuthenticated <=> store.auth.user # NULL

\* C3: in every reachable store state auth.getUser() returns the identity
\* currently held in auth.user.
C3_AccessorReturnsLiveIdentity ==
  CallGetUser(store) = store.auth.user

\* C4 as claimed: an adapter called while puterReady is false makes no
\* platform call, sets lastError to the unavailable message and resolves to
\* undefined; a platform call is made only when puterReady is true.
C4_GuardedByReadyFlag ==
  adapter.op # "none" =>
    /\ ~adapter.readyAtCall =>
         /\ ~adapter.platformCalled
         /\ adapter.errorAtReturn = MsgUnavailable
         /\ adapter.pc = "resolved"
         /\ adapter.result = UNDEFINED
    /\ adapter.platformCalled => adapter.readyAtCall

\* C4 as amended: an adapter called while window.puter is absent makes no
\* platform call, sets lastError to the unavailable message and resolves to
\* undefined without throwing; a platform call is made only when window.puter
\* is present.
C4_GuardedByClientPresence ==
  adapter.op # "none" =>
    /\ ~adapter.presentAtCall =>
         /\ ~adapter.platformCalled
         /\ adapter.errorAtReturn = MsgUnavailable
         /\ adapter.pc = "resolved"
         /\ adapter.result = UNDEFINED
    /\ adapter.platformCalled => adapter.presentAtCall /\ puterPresent

C4_Witness ==
  /\ adapter.op = "kv.set"
  /\ ~adapter.presentAtCall
  /\ adapter.pc = "resolved"
  /\ store.error = MsgUnavailable

\* C5: when the platform call of an adapter rejects, the adapter resolves to
\* an undefined result with the failure recorded in lastError; the caller
\* never sees a rejection.
C5_PlatformFailureNeverRejects ==
  adapter.platformCalled =>
    /\ adapter.pc # "rejected"
    /\ adapter.result \in Rejections => adapter.errorAtReturn # NULL

\* C6: an analyze run in which every stage succeeds makes exactly two kv.set
\* calls, both to the key of the run's record id; the first carries feedback
\* '' and the second the parsed JSON of the inference response text.
C6_TwoPersistenceCalls ==
  \A r \in Runs :
    (runs[r].pc = "done" /\ runs[r].emptyAt = "") =>
      LET sets == CallsTo(r, "kv.set")
          first == CHOOSE i \in sets : \A j \in sets : i <= j
          second == CHOOSE i \in sets : \A j \in sets : j <= i
      IN /\ Cardinality(sets) = 2
         /\ \A i \in sets :
              /\ runs[r].calls[i].arg = KeyOf(runs[r].uuid)
              /\ ParseStored(runs[r].calls[i].value).id = Str(runs[r].uuid)
         /\ ParseStored(runs[r].calls[first].value).feedback = Str("")
         /\ ParseStored(runs[r].calls[second].value).feedback
              = JSONParse(runs[r].feedbackText.v).val

C6_Witness ==
  \E r \in Runs :
    /\ runs[r].pc = "done"
    /\ runs[r].emptyAt = ""
    /\ runs[r].feedbackText = Str(TextObject)
    /\ KeyOf(runs[r].uuid) \in DOMAIN kvStore
    /\ ParseStored(kvStore[KeyOf(runs[r].uuid)]).feedback = Obj("score=7")

\* C7: when the inference response text is not valid JSON the run ends in a
\* reported failure: the status text is a failure message, there is no second
\* kv.set call, and the record stored under the run's key keeps feedback ''.
C7_ParseFailureReported ==
  \A r \in Runs :
    runs[r].thrown = "SyntaxError" =>
      /\ runs[r].lastStatus \in FailureTexts
      /\ Cardinality(CallsTo(r, "kv.set")) = 1
      /\ KeyOf(runs[r].uuid) \in DOMAIN kvStore =>
           ParseStored(kvStore[KeyOf(runs[r].uuid)]).feedback = Str("")

\* C8: if the conversion yields no artifact, the run makes no image upload,
\* no kv.set and no inference call, its status text ends as a non-empty
\* failure message, and it persists no record.
C8_ConversionFailureStopsRun ==
  \A r \in Runs :
    runs[r].imageFile = Null =>
      /\ \A i \in DOMAIN runs[r].calls :
           /\ runs[r].calls[i].op \in {"fs.upload", "convert"}
           /\ runs[r].calls[i].arg = "file"
      /\ runs[r].lastStatus = StConvertFailed
      /\ runs[r].lastStatus \in FailureTexts /\ runs[r].lastStatus # ""
      /\ (\A q \in Runs \ {r} : runs[q].pc = "idle") =>
           statusText = StConvertFailed
      /\ runs[r].data = NoData
      /\ runs[r].pc = "aborted"

C8_Witness ==
  \E r \in Runs :
    /\ runs[r].imageFile = Null
    /\ runs[r].pc = "aborted"
    /\ runs[r].uploadedFile = Str(ResumePath)

\* C9: for each stage of a run that reports an unavailable or empty result,
\* no later stage's call is made and the status text ends as a failure
\* message.
C9_EmptyResultStopsRun ==
  \A r \in Runs :
    runs[r].emptyAt # "" =>
      /\ runs[r].pc = "aborted"
      /\ runs[r].lastStatus \in FailureTexts

\* C10: whenever a run has invoked inference and awaits it, a draft record of
\* the run with feedback '' is stored under the run's key.
C10_DraftStoredBeforeInference ==
  \A r \in Runs :
    runs[r].pc = "feedback" =>
      /\ KeyOf(runs[r].uuid) \in DOMAIN kvStore
      /\ ParseStored(kvStore[KeyOf(runs[r].uuid)]).feedback = Str("")

\* the collaborator calls of a run in the order of the source, and the
\* number of them issued once the run awaits the one named by pc
StageOps == <<"fs.upload", "convert", "fs.upload", "kv.set", "ai.feedback", "kv.set">>
StagePcs == <<"upload", "convert", "uploadImage", "kvDraft", "feedback", "kvFinal">>

\* C11: within one run the calls are issued in the fixed order upload,
\* convert, upload image, persist draft, infer, (parse,) persist final, and
\* while the run awaits the result of stage N no call of a later stage has
\* been issued.
C11_StagesSequential ==
  \A r \in Runs :
    LET c == runs[r].calls
    IN /\ Len(c) <= Len(StageOps)
       /\ \A i \in DOMAIN c : c[i].op = StageOps[i]
       /\ Len(c) >= 1 => c[1].arg = "file"
       /\ Len(c) >= 3 => c[3].arg = "image"
       /\ \A n \in DOMAIN StagePcs : runs[r].pc = StagePcs[n] => Len(c) = n
       /\ Len(c) = Len(StageOps) =>
            /\ runs[r].feedbackText # Undef
            /\ ParseStored(c[Len(c)].value).feedback
                 = JSONParse(runs[r].feedbackText.v).val

C11_Witness ==
  \E r \in Runs :
    /\ runs[r].pc = "done"
    /\ Len(runs[r].calls) = Len(StageOps)

\* the timers and status checks outstanding
Intervals == {g \in DOMAIN gates : gates[g].interval}
Timeouts == {g \in DOMAIN gates : gates[g].timeout}

\* C12: after any number of init() calls at most one polling interval and at
\* most one deadline timer are outstanding, and at most one status check has
\* been triggered and is in flight.
C12_InitIdempotent ==
  /\ Cardinality(Intervals) <= 1
  /\ Cardinality(Timeouts) <= 1
  /\ Cardinality(InFlight) <= 1

\* C13: once init() has been called and its timers have all finished, the
\* store has reached puterReady = true or lastError = the timeout message,
\* whenever the platform client appeared.
C13_GateReachesReadyOrTimeout ==
  (inits > 0 /\ Intervals = {} /\ Timeouts = {}) =>
    store.puterReady \/ store.error = MsgTimeout

\* C14: if the platform client has not appeared when a deadline fires, the
\* deadline has cancelled its polling and the store holds lastError = the
\* timeout message, isLoading = false and puterReady = false, with no status
\* check triggered.
C14_DeadlineReportsUnavailable ==
  /\ \A g \in DOMAIN gates : ~gates[g].timeout => ~gates[g].interval
  /\ (~puterPresent /\ \E g \in DOMAIN gates : ~gates[g].timeout) =>
       /\ store.error = MsgTimeout
       /\ store.isLoading = FALSE
       /\ store.puterReady = FALSE
       /\ InFlight = {}

C14_Witness ==
  /\ ~puterPresent
  /\ gates # <<>>
  /\ ~gates[1].timeout
  /\ ~gates[1].interval
  /\ store.error = MsgTimeout

(* --------------------------- session contracts ------------------------- *)
\* slot i is inside checkAuthStatus, called directly, by init, or by signIn
InCheck(i) ==
  /\ ops[i].kind \in {"checkAuthStatus", "signIn"}
  /\ ops[i].pc \in {"isSignedIn", "getUser"}

\* C15: checkAuthStatus with the platform present. When isSignedIn() is true
\* and getUser() returns identity u, the step that commits it leaves the
\* session authenticated with identity u and isLoading false; when
\* isSignedIn() is false, the step leaves it unauthenticated with identity
\* null and isLoading false. A check that no other session operation
\* overlapped keeps error null from its start to either outcome.
C15_CheckStatusOutcome ==
  /\ [][\A i \in Slots : InCheck(i) =>
          /\ \A u \in Users : GetUserResolves(i, u) =>
                /\ store'.auth.isAuthenticated
                /\ store'.auth.user = u
                /\ store'.isLoading = FALSE
                /\ ops[i].alone => store'.error = NULL
          /\ IsSignedInResolves(i, FALSE) =>
                /\ ~store'.auth.isAuthenticated
                /\ store'.auth.user = NULL
                /\ store'.isLoading = FALSE
                /\ ops[i].alone => store'.error = NULL]_vars
  /\ [](\A i \in Slots : InCheck(i) => puterPresent)

C15_Witness ==
  /\ Was("checkAuthStatus", "signedIn")
  /\ store.auth.isAuthenticated
  /\ store.auth.user = "u1"
  /\ store.isLoading = FALSE
  /\ store.error = NULL

\* the session is unauthenticated with err recorded and nothing loading
EndsUnauthenticated(s, err) ==
  /\ ~s.auth.isAuthenticated
  /\ s.auth.user = NULL
  /\ s.error = err
  /\ s.isLoading = FALSE

\* C16: a signIn call has puter.auth.signIn() pending exactly when it starts
\* and never again; its status check begins only in the step where that
\* promise resolves; when puter.auth.signIn() rejects, or isSignedIn() or
\* getUser() of the following check rejects, the step leaves the session
\* unauthenticated with the error recorded and the call finished.
C16_SignInOnceThenCheck ==
  [][\A i \in Slots :
       /\ (ops[i].pc = "idle" /\ ops'[i].kind = "signIn")
             => ops'[i].pc = "signIn"
       /\ (ops[i].pc # "signIn" /\ ops'[i].pc = "signIn")
             => ops[i].pc = "idle"
       /\ (ops'[i].kind = "signIn" /\ ops[i].pc # "isSignedIn"
              /\ ops'[i].pc = "isSignedIn")
             => SignInResolves(i)
       /\ \A rej \in Rejections :
            /\ SignInRejects(i, rej) =>
                 /\ EndsUnauthenticated(store', CatchMsg(rej, MsgSignInFailed))
                 /\ ops'[i].pc = "idle"
            /\ (ops[i].kind = "signIn"
                 /\ (IsSignedInRejects(i, rej) \/ GetUserRejects(i, rej))) =>
                 /\ EndsUnauthenticated(store', CatchMsg(rej, MsgCheckFailed))
                 /\ ops'[i].pc = "idle"]_vars

C16_Witness ==
  /\ Was("signIn", "failed")
  /\ EndsUnauthenticated(store, MsgSignInFailed)
  /\ InFlight = {}

\* getUser() of slot i's refreshUser call rejects with rej
RefreshFails(i, rej) ==
  /\ ops[i].kind = "refreshUser"
  /\ GetUserRejects(i, rej)

\* C17 as stated: a failed refresh records the error and a session that was
\* authenticated before the failure is still authenticated with the same
\* identity after it.
C17_FailedRefreshKeepsSession ==
  [][\A i \in Slots : \A rej \in Rejections :
       (RefreshFails(i, rej) /\ store.auth.isAuthenticated) =>
          /\ store'.error = CatchMsg(rej, MsgRefreshFailed)
          /\ store'.auth.isAuthenticated
          /\ store'.auth.user = store.auth.user]_vars

\* C17 amended: a failed refresh records the error through setError, which
\* also ends loading and demotes the session: whatever the session was
\* before, it is unauthenticated with identity null after the failure; only
\* the getUser accessor is left as it was.
C17_FailedRefreshDemotes ==
  [][\A i \in Slots : \A rej \in Rejections :
       RefreshFails(i, rej) =>
          /\ EndsUnauthenticated(store', CatchMsg(rej, MsgRefreshFailed))
          /\ store'.auth.getUser = store.auth.getUser
          /\ store'.puterReady = store.puterReady]_vars

C17_Witness ==
  /\ Was("refreshUser", "failed")
  /\ EndsUnauthenticated(store, MsgRefreshFailed)
  /\ store.auth.getUser = Captured("u1")

\* C18: a signOut call starts with puter.auth.signOut() pending; the step
\* where it resolves leaves the session unauthenticated with identity null
\* and isLoading false whatever the session was before; the step where it
\* rejects records the error and leaves isLoading false.
C18_SignOutOutcome ==
  [][\A i \in Slots :
       /\ (ops[i].pc = "idle" /\ ops'[i].kind = "signOut")
             => ops'[i].pc = "signOut"
       /\ SignOutResolves(i) =>
             /\ ~store'.auth.isAuthenticated
             /\ store'.auth.user = NULL
             /\ CallGetUser(store') = NULL
             /\ store'.isLoading = FALSE
             /\ store'.error = store.error
       /\ \A rej \in Rejections : SignOutRejects(i, rej) =>
             /\ store'.error = CatchMsg(rej, MsgSignOutFailed)
             /\ store'.isLoading = FALSE]_vars

C18_Witness ==
  /\ Was("signOut", "signedOut")
  /\ ~store.auth.isAuthenticated
  /\ store.auth.user = NULL
  /\ store.isLoading = FALSE
  /\ InFlight = {}

\* C19: clearError() sets error to null and leaves every other field of the
\* store (isLoading, puterReady, auth, and the fs / ai / kv / init /
\* clearError entries) as it was, and applying it to its own result changes
\* nothing.
C19_ClearErrorOnlyResetsError ==
  /\ [][clearError =>
          /\ store'.error = NULL
          /\ DOMAIN store' = DOMAIN store
          /\ \A k \in DOMAIN store \ {"error"} : store'[k] = store[k]
          /\ ClearErrorOn(store') = store']_vars
  /\ [](ClearErrorOn(ClearErrorOn(store)) = ClearErrorOn(store))

\* an error left by a failed operation has been cleared
C19_Witness ==
  /\ lastDone.out = "failed"
  /\ InFlight = {}
  /\ store.error = NULL
  /\ store.isLoading = FALSE

(* --------------------------- concurrent runs --------------------------- *)
\* the runs that have created their record
Recorded == {r \in Runs : runs[r].uuid # ""}
\* the values run r passed to kv.set
Written(r) == {runs[r].calls[i].value : i \in CallsTo(r, "kv.set")}

\* C20: under every interleaving of handleAnalyze invocations, two runs that
\* have created their records hold distinct identifiers and distinct keys;
\* every kv.set of a run goes to the run's own key with the run's own
\* identifier in the value; no run issues a read of the key-value store;
\* every stored key belongs to exactly one run and holds a value that run
\* wrote; and a step changes the value under a run's key only if it is a
\* step of that run.
C20_ConcurrentRunsIndependent ==
  /\ [](/\ \A r, q \in Recorded : r # q =>
             /\ runs[r].uuid # runs[q].uuid
             /\ KeyOf(runs[r].uuid) # KeyOf(runs[q].uuid)
        /\ \A r \in Runs : \A i \in DOMAIN runs[r].calls :
             LET c == runs[r].calls[i]
             IN /\ c.op \notin {"kv.get", "kv.list", "fs.read"}
                /\ c.op = "kv.set" =>
                     /\ r \in Recorded
                     /\ c.arg = KeyOf(runs[r].uuid)
                     /\ ParseStored(c.value).id = Str(runs[r].uuid)
        /\ \A k \in DOMAIN kvStore :
             \E r \in Recorded :
               /\ k = KeyOf(runs[r].uuid)
               /\ kvStore[k] \in Written(r)
               /\ \A q \in Recorded \ {r} :
                    k # KeyOf(runs[q].uuid) /\ kvStore[k] \notin Written(q))
  /\ [][\A r \in Recorded :
          LET k == KeyOf(runs[r].uuid)
          IN (k \in DOMAIN kvStore /\ kvStore'[k] # kvStore[k])
               => runs'[r] # runs[r] /\ \A q \in Runs \ {r} : runs'[q] = runs[q]]_vars

\* two runs are suspended at the same await, each with its draft stored
C20_Witness ==
  \E r, q \in Recorded :
    /\ r # q
    /\ runs[r].pc = "feedback"
    /\ runs[q].pc = "feedback"
    /\ KeyOf(runs[r].uuid) \in DOMAIN kvStore
    /\ KeyOf(runs[q].uuid) \in DOMAIN kvStore

(* ------------------------- end states of a run ------------------------- *)
\* the run is over: it returned or threw
Ended(r) == runs[r].pc \in {"done", "aborted", "threw"}
\* the texts shown while a stage is running
ProgressTexts == {StUploading, StConverting, StPreparing, StAnalyzing}
\* some stage of the run yielded no result, or the parse failed
EndedInFailure(r) ==
  /\ Ended(r)
  /\ runs[r].emptyAt # "" \/ runs[r].thrown = "SyntaxError"

\* C21: a run that ended after a stage yielded no result or after a parse
\* failure last set a failure message as status text: not the success
\* message and not the in-progress message of a stage.
C21_FailureDistinguishable ==
  \A r \in Runs :
    EndedInFailure(r) =>
      /\ runs[r].lastStatus \in FailureTexts
      /\ runs[r].lastStatus # StDone
      /\ runs[r].lastStatus \notin ProgressTexts

\* C22: whenever a run has set the success status text, the key-value store
\* holds under the run's key a record whose feedback is the parsed inference
\* result.
C22_SuccessTextMeansStored ==
  \A r \in Runs :
    runs[r].lastStatus = StDone =>
      /\ KeyOf(runs[r].uuid) \in DOMAIN kvStore
      /\ ParseStored(kvStore[KeyOf(runs[r].uuid)]).feedback
           = JSONParse(runs[r].feedbackText.v).val
      /\ ParseStored(kvStore[KeyOf(runs[r].uuid)]) = runs[r].data

\* C23: once every started run has ended, the processing flag that hides the
\* form is false again.
C23_ProcessingFlagReset ==
  (/\ \E r \in Runs : Ended(r)
   /\ \A r \in Runs : Ended(r) \/ runs[r].pc = "idle")
    => ~isProcessing

(* ------------------------- the persisted record ------------------------ *)
\* the record run r held when it issued its i-th call: data.feedback is
\* assigned only before the final kv.set
DataAt(r, i) ==
  IF i = Len(StageOps) THEN runs[r].data
  ELSE [runs[r].data EXCEPT !.feedback = Str("")]

\* every kv.set of a run carries key prefix \o id, and parsing the value it
\* passed, or the value the store holds after it stored, gives back the
\* record in every field; the two persisted versions differ in feedback only
RoundTrip(prefix) ==
  /\ \A r \in Runs : \A i \in CallsTo(r, "kv.set") :
       /\ runs[r].calls[i].arg = prefix \o runs[r].uuid
       /\ ParseStored(runs[r].calls[i].value) = DataAt(r, i)
       /\ \A j \in CallsTo(r, "kv.set") : \A f \in DOMAIN NoData \ {"feedback"} :
            ParseStored(runs[r].calls[i].value)[f]
              = ParseStored(runs[r].calls[j].value)[f]
  /\ \A r \in Recorded :
       (prefix \o runs[r].uuid) \in DOMAIN kvStore =>
          ParseStored(kvStore[prefix \o runs[r].uuid])
            \in {DataAt(r, i) : i \in CallsTo(r, "kv.set")}
  /\ \A k \in DOMAIN kvStore : \E r \in Recorded : k = prefix \o runs[r].uuid

DeletingOps == {"fs.delete", "kv.delete", "kv.flush"}

\* C25: no run issues a blob delete, a key-value delete or a flush; what a
\* run's uploads stored is still in the file store in every later state,
\* whatever became of the run; and no step removes a path from the file
\* store or a key from the key-value store.
C25_NothingDeleted ==
  /\ [](\A r \in Runs :
          /\ \A i \in DOMAIN runs[r].calls :
               runs[r].calls[i].op \notin DeletingOps
          /\ runs[r].uploadedFile # Undef => ResumePath \in blobs
          /\ runs[r].uploadedImage # Undef => ImagePath \in blobs)
  /\ [][/\ blobs \subseteq blobs'
        /\ DOMAIN kvStore \subseteq DOMAIN kvStore']_vars

\* a run aborted at the image upload after its resume was uploaded
C25_Witness ==
  \E r \in Runs :
    /\ runs[r].pc = "aborted"
    /\ runs[r].emptyAt = "uploadImage"
    /\ runs[r].uploadedFile = Str(ResumePath)
    /\ ResumePath \in blobs
    /\ \A q \in Runs \ {r} : runs[q].pc = "idle"

(* ------------------------------ no retries ----------------------------- *)
\* C26: an adapter invocation has issued at most one platform call, whether
\* its promise is pending, resolved or rejected; a run has issued at most
\* two uploads (one of the file, one of the image), one conversion, one
\* inference and two kv.set calls; and a run that has ended issues nothing
\* more.
C26_NoRetries ==
  /\ [](/\ adapter.platformCalls <= 1
        /\ \A r \in Runs :
             /\ Cardinality(CallsTo(r, "fs.upload")) <= 2
             /\ \A i, j \in CallsTo(r, "fs.upload") :
                  runs[r].calls[i].arg = runs[r].calls[j].arg => i = j
             /\ Cardinality(CallsTo(r, "convert")) <= 1
             /\ Cardinality(CallsTo(r, "ai.feedback")) <= 1
             /\ Cardinality(CallsTo(r, "kv.set")) <= 2)
  /\ [][/\ \A r \in Runs : Ended(r) => runs'[r] = runs[r]
        /\ adapter.pc \in {"resolved", "rejected"} =>
             \/ adapter' = adapter
             \/ \E op \in AdapterOps : AdapterCall(op)]_vars

\* an adapter call was rejected and a run was aborted by an empty inference
C26_Witness ==
  /\ adapter.pc = "rejected"
  /\ adapter.platformCalls = 1
  /\ \E r \in Runs :
       /\ runs[r].pc = "aborted"
       /\ runs[r].emptyAt = "feedback"
       /\ Len(runs[r].calls) = 5

(* --------------------------- the gate's steps -------------------------- *)
\* this step starts exactly one checkAuthStatus and nothing else in ops
StartsOneCheck ==
  \E i \in FreeSlots :
    /\ ops'[i].kind = "checkAuthStatus"
    /\ ops'[i].pc = "isSignedIn"
    /\ \A j \in Slots \ {i} : ops'[j].pc = ops[j].pc /\ ops'[j].kind = ops[j].kind

\* C27: an init() call that finds the client present sets puterReady and
\* starts one checkAuthStatus in the same step and creates no interval and
\* no timeout; a poll that finds the client present clears its interval,
\* sets puterReady and starts one checkAuthStatus in the same step; a poll
\* that finds it absent changes neither the store nor the operations; and an
\* interval that was cleared never polls again.
C27_ReadyStartsOneCheck ==
  [][/\ (init /\ puterPresent) =>
          /\ store'.puterReady
          /\ StartsOneCheck
          /\ gates' = gates
     /\ (init /\ ~puterPresent) =>
          /\ Len(gates') = Len(gates) + 1
          /\ store' = store /\ ops' = ops
     /\ \A g \in DOMAIN gates :
          /\ (Poll(g) /\ puterPresent) =>
               /\ ~gates'[g].interval
               /\ store'.puterReady
               /\ StartsOneCheck
          /\ (Poll(g) /\ ~puterPresent) => store' = store /\ ops' = ops
          /\ ~gates[g].interval => ~gates'[g].interval /\ ~ENABLED Poll(g)]_vars

\* the client appeared after init() and a poll has observed it
C27_Witness ==
  /\ gates # <<>>
  /\ ~gates[1].interval
  /\ gates[1].timeout
  /\ store.puterReady
  /\ puterPresent
  /\ \E i \in Slots : ops[i].kind = "checkAuthStatus" /\ ops[i].pc = "isSignedIn"

\* C28: a gate whose polling has stopped, because a poll observed the client
\* or because the deadline fired, has no deadline timer outstanding either.
C28_NoTimerOutstanding ==
  \A g \in DOMAIN gates : ~gates[g].interval => ~gates[g].timeout

(* ----------------------------- update frames --------------------------- *)
\* the top-level fields in which store values s and t differ
Changed(s, t) == {k \in DOMAIN s : s[k] # t[k]}
\* the capability-function table and the session operation functions
TableFields == {"fs", "ai", "kv", "init", "clearError"}
OpFunctions == {"signIn", "signOut", "refreshUser", "checkAuthStatus"}
SameFunctions(s, t) ==
  /\ DOMAIN t = DOMAIN s
  /\ DOMAIN t.auth = DOMAIN s.auth
  /\ \A k \in TableFields : t[k] = s[k]
  /\ \A f \in OpFunctions : t.auth[f] = s.auth[f]

\* C29: applied to any reachable store, also one that concurrent operations
\* have written in between, the update that starts a session operation
\* changes only isLoading and error, the updates of a successful completion
\* change only auth and isLoading, the gate's update changes only
\* puterReady, and no update (setError and clearError included) changes the
\* capability-function table or the session operation functions; every step
\* of the program changes the store within these frames.
C29_UpdatesKeepTheirFrame ==
  /\ [](/\ Changed(store, BeginLoading(store)) \subseteq {"isLoading", "error"}
        /\ \A u \in Users \cup {NULL} :
             /\ Changed(store, SetSignedIn(store, u)) \subseteq {"auth", "isLoading"}
             /\ SameFunctions(store, SetSignedIn(store, u))
        /\ Changed(store, SetSignedOut(store)) \subseteq {"auth", "isLoading"}
        /\ Changed(store, Merge(store, [puterReady |-> TRUE])) \subseteq {"puterReady"}
        /\ SameFunctions(store, BeginLoading(store))
        /\ SameFunctions(store, SetSignedOut(store))
        /\ SameFunctions(store, setError(store, MsgPlatform))
        /\ SameFunctions(store, ClearErrorOn(store)))
  /\ [][/\ SameFunctions(store, store')
        /\ \/ Changed(store, store') \subseteq {"isLoading", "error"}
           \/ ~((checkAuthStatus \/ signIn \/ signOut \/ refreshUser) /\ puterPresent)
        /\ \/ Changed(store, store') \subseteq {"auth", "isLoading"}
           \/ \A i \in Slots :
                ~((\E u \in Users \cup {NULL} : GetUserResolves(i, u))
                    \/ IsSignedInResolves(i, FALSE) \/ SignOutResolves(i))
        /\ ((init \/ \E g \in DOMAIN gates : Poll(g)) /\ puterPresent)
             => /\ Changed(store, store') \subseteq {"puterReady", "isLoading", "error"}
                /\ store' = BeginLoading(Merge(store, [puterReady |-> TRUE]))]_vars

\* an operation was started on a session another operation had signed in
C29_Witness ==
  /\ lastDone.out = "signedIn"
  /\ store.auth.isAuthenticated
  /\ store.auth.user \in Users
  /\ store.isLoading
  /\ store.puterReady
  /\ InFlight # {}

(* ----------------------------- status texts ---------------------------- *)
\* the run is suspended in one of its stages
InStage(r) == \E n \in DOMAIN StagePcs : runs[r].pc = StagePcs[n]

\* C30: the status text a run set last while one of its stages is running
\* identifies the stage: runs that are in different stages have set
\* different texts, and a run that ended in a failure has set a failure
\* text.
C30_StatusIdentifiesStage ==
  /\ \A r, q \in Runs :
       (InStage(r) /\ InStage(q) /\ runs[r].pc # runs[q].pc)
         => runs[r].lastStatus # runs[q].lastStatus
  /\ \A r \in Runs : EndedInFailure(r) => runs[r].lastStatus \in FailureTexts

(* --------------------------- the feedback text ------------------------- *)
\* C31: when ai.feedback resolves with content c, the feedback text the run
\* goes on with is c itself if c is a string and the text of c's first
\* element if c is a non-empty list; if c is an empty list the run throws a
\* TypeError there: it issues no further call, assigns no feedback and
\* stores nothing.
C31_FeedbackTextExtraction ==
  [][\A r \in Runs : \A c \in Contents :
       FeedbackResolves(r, c) =>
         /\ (c.isString \/ Len(c.items) > 0) =>
              /\ runs'[r].feedbackText = Str(c.items[1])
              /\ runs'[r].pc \in {"kvFinal", "threw"}
              /\ runs'[r].pc = "kvFinal" =>
                   runs'[r].data.feedback = JSONParse(c.items[1]).val
         /\ (~c.isString /\ Len(c.items) = 0) =>
              /\ runs'[r].pc = "threw"
              /\ runs'[r].thrown = "TypeError"
              /\ runs'[r].calls = runs[r].calls
              /\ runs'[r].data = runs[r].data
              /\ runs'[r].feedbackText = Undef
              /\ kvStore' = kvStore]_vars

\* a run threw on an empty content list after its inference call
C31_Witness ==
  \E r \in Runs :
    /\ runs[r].pc = "threw"
    /\ runs[r].thrown = "TypeError"
    /\ runs[r].feedbackText = Undef
    /\ Len(runs[r].calls) = 5
    /\ runs[r].data.feedback = Str("")

(* ------------------------------- kv.list ------------------------------- *)
\* C32: a kv.list adapter call that reaches the platform passes the pattern
\* it was given; it passes false when it was called without the
\* returnValues flag and the flag it was given otherwise.
C32_ListDefaultsToKeysOnly ==
  (adapter.op = "kv.list" /\ adapter.platformCalled) =>
    /\ Len(adapter.passed) = 2
    /\ adapter.passed[1] = adapter.args[1]
    /\ adapter.args[2] = UNDEFINED => adapter.passed[2] = "false"
    /\ adapter.args[2] # UNDEFINED => adapter.passed[2] = adapter.args[2]

C32_Witness ==
  /\ adapter.op = "kv.list"
  /\ adapter.platformCalled
  /\ adapter.args = <<"resume:*", UNDEFINED>>
  /\ adapter.passed = <<"resume:*", "false">>

(* ------------------------- overlapping operations ---------------------- *)
\* slot i holds a checkAuthStatus or refreshUser call that was started before
\* the signOut that completed last, and was in flight when it succeeded
Overtaken(i) ==
  /\ Was("signOut", "signedOut")
  /\ i \in lastDone.during
  /\ ops[i].kind \in {"checkAuthStatus", "refreshUser"}

\* C33: when a checkAuthStatus or refreshUser call that was started before
\* a signOut and was still in flight when that signOut succeeded completes,
\* it leaves the session unauthenticated.
C33_LateCompletionStaysSignedOut ==
  [][\A i \in Slots :
       (Overtaken(i) /\ ops'[i].pc = "idle" /\ ops[i].pc # "idle")
         => ~store'.auth.isAuthenticated]_vars

\* C34: isLoading is true in every state in which a session operation is in
\* flight.
C34_LoadingWhileInFlight == InFlight # {} => store.isLoading

\* C35: the step in which getUser() of a refreshUser call resolves with
\* identity u leaves the session authenticated with identity u and isLoading
\* false, whatever the session was before; a refreshUser call never awaits
\* isSignedIn().
C35_RefreshAlwaysAuthenticates ==
  /\ [][\A i \in Slots : \A u \in Users :
          (ops[i].kind = "refreshUser" /\ GetUserResolves(i, u)) =>
             /\ store'.auth.isAuthenticated
             /\ store'.auth.user = u
             /\ CallGetUser(store') = u
             /\ store'.isLoading = FALSE]_vars
  /\ [](\A i \in Slots :
          ops[i].kind = "refreshUser" => ops[i].pc = "getUser")

C35_Witness ==
  /\ Was("refreshUser", "signedIn")
  /\ store.auth.isAuthenticated
  /\ store.auth.user = "u2"
  /\ store.isLoading = FALSE
  /\ store.puterReady = FALSE

(* ---------------------- adapters and the store state ------------------- *)
\* C36: an adapter call made while the client is present changes nothing in
\* the store, neither when it is made nor when its platform promise resolves
\* with a value, resolves empty or rejects: isLoading, error, puterReady and
\* auth are as before.
C36_AdapterLeavesStore ==
  [][/\ ((\E op \in AdapterOps : AdapterCall(op)) /\ puterPresent)
          => /\ store' = store
             /\ adapter'.platformCalled
     /\ AdapterSettles => store' = store /\ adapter.presentAtCall]_vars

\* a platform call made for a signed-in session came back empty
C36_Witness ==
  /\ adapter.pc = "resolved"
  /\ adapter.platformCalled
  /\ adapter.presentAtCall
  /\ adapter.result = UNDEFINED
  /\ store.auth.isAuthenticated
  /\ store.puterReady
  /\ store.error = NULL

(* -------------------------- readiness is kept -------------------------- *)
\* C37: puterReady is false in the initial store and no step takes it from
\* true back to false: not an error report made after readiness, and not a
\* deadline callback that fires after readiness.
C37_ReadyIsNeverWithdrawn ==
  /\ store.puterReady = FALSE
  /\ [][store.puterReady => store'.puterReady]_vars

\* the store is ready, the deadline of the init() call that polled has
\* fired since, and an error has been reported since
C37_Witness ==
  /\ store.puterReady
  /\ store.error # NULL
  /\ \E g \in DOMAIN gates : ~gates[g].timeout /\ ~gates[g].interval

(* ------------------------ submitting without a file -------------------- *)
\* C38: a submission made while no file is selected changes nothing: no run
\* leaves its idle state, so no upload, conversion, storage or inference
\* call is issued, nothing is stored, no status text is set and isProcessing
\* stays false. Runs start only in steps taken with a file selected.
C38_NoFileNoRun ==
  [][/\ (handleSubmit /\ ~file)
          => UNCHANGED <<runs, kvStore, blobs, usedIds, isProcessing,
                         statusText, store>>
     /\ ~file => /\ isProcessing' = isProcessing
                 /\ \A r \in Runs : runs[r].pc = "idle" => runs'[r] = IdleRun]_vars

\* the form can be submitted with no file selected while the platform takes
\* calls (one made from elsewhere has resolved): every run is idle and
\* nothing has been stored
C38_Witness ==
  /\ ~file
  /\ ~isProcessing
  /\ puterPresent
  /\ adapter.pc = "resolved"
  /\ adapter.platformCalled
  /\ ENABLED handleSubmit
  /\ runs = [r \in Runs |-> IdleRun]
  /\ blobs = {}
  /\ usedIds = {}
  /\ statusText = ""
====
